---- MODULE Spec2Model ----
(***************************************************************************)
(* Model of the Lovense dongle session state machine                       *)
(* (lovense_dongle_state_machine.rs).                                      *)
(*                                                                         *)
(* The machine is a task that runs one state's transition() after the      *)
(* other.  A step of the model is one effect of the task that is visible   *)
(* outside it: the handling of one received input, one send on a channel,  *)
(* one store to the shared flag.  The environment (command producer,       *)
(* serial port threads, event consumer, device object) puts items on the   *)
(* machine's inbound channels and drops channel ends.                      *)
(***************************************************************************)
EXTENDS Integers, Sequences, FiniteSets, TLC

\* ------------------------------------------------------------------------
\* Bounds of the environment
\* ------------------------------------------------------------------------
MaxEnvSteps == 5    \* steps the environment takes over a run
MaxQueue == 2       \* items in flight on one inbound channel

\* ------------------------------------------------------------------------
\* Data model
\* ------------------------------------------------------------------------
\* LovenseDeviceCommand
LovenseDeviceCommand == {"StartScanning", "StopScanning", "DongleFound"}

\* Toy ids the dongle may report
ToyIds == {"a", "b"}

\* LovenseDongleIncomingMessage { func, data: Option<{id: Option, status:
\* Option}>, result: Option }.  The optional data record is flattened:
\* has_data says whether it is present, "none" is Option::None.
NoMsg ==
  [func |-> "none", has_data |-> FALSE, id |-> "none", status |-> "none",
   result |-> "none"]

AllDongleMsgs ==
  [func : {"IncomingStatus", "Search", "ToyData", "Statuss"},
   has_data : BOOLEAN,
   id : ToyIds \cup {"none"},
   status : {"none", "DeviceConnectSuccess", "DeviceDisconnected"},
   result : {"none", "SearchStopped", "DeviceConnectSuccess"}]

\* The messages the environment injects: for every func the states look at,
\* the shapes that take the different branches of the code (data present
\* or absent, id present or absent, the awaited status or result or another
\* one); fields a func does not carry are left absent.
DongleMsgs ==
  {m \in AllDongleMsgs :
     /\ ~m.has_data => (m.id = "none" /\ m.status = "none")
     /\ m.func = "IncomingStatus" =>
          /\ m.result = "none"
          /\ m.has_data => m.status # "none"
          /\ m.status = "DeviceDisconnected" => m.id = "a"
     /\ m.func = "Search" => (~m.has_data /\ m.result # "none")
     /\ m.func = "ToyData" =>
          /\ m.status = "none"
          /\ m.result # "DeviceConnectSuccess"
          /\ m.has_data => m.result = "none"
     /\ m.func = "Statuss" => (~m.has_data /\ m.result = "none")}

\* OutgoingLovenseData: Message(LovenseDongleOutgoingMessage) or Raw(String)
NoOut == [func |-> "none", message_type |-> "none", raw |-> "none"]
OutMessage(func, message_type) ==
  [func |-> func, message_type |-> message_type, raw |-> "none"]
RawOut(s) == [func |-> "none", message_type |-> "none", raw |-> s]

\* What an attached device object may submit for writing
DeviceWrites == {RawOut("p1"), OutMessage("Command", "Toy")}

\* DeviceCommunicationEvent
ScanningFinished == [ev |-> "ScanningFinished", address |-> "none"]
DeviceFound(id) == [ev |-> "DeviceFound", address |-> id]

\* IncomingMessage
IncomingMessage(kind, cmd, dongle, device) ==
  [kind |-> kind, cmd |-> cmd, dongle |-> dongle, device |-> device]
CommMgr(c) == IncomingMessage("CommMgr", c, NoMsg, NoOut)
Dongle(m) == IncomingMessage("Dongle", "none", m, NoOut)
Device(o) == IncomingMessage("Device", "none", NoMsg, o)
Disconnect == IncomingMessage("Disconnect", "none", NoMsg, NoOut)

VARIABLES
  state,                  \* the live state object
  pc,                     \* position inside the state's transition()
  should_scan,            \* local latch of WaitForDongle
  device_id,              \* device_id of the device states
  is_scanning,            \* the shared AtomicBool
  failure,                \* "none", or why the task panicked
  comm_manager_incoming,  \* commands in flight to the machine
  comm_open,              \* some command sender is alive
  dongle_incoming,        \* dongle messages in flight to the machine
  dongle_in_open,         \* the port's sender for dongle_incoming is alive
  dongle_outgoing,        \* what the machine wrote to the dongle writer
  dongle_out_open,        \* the port's receiver for dongle_outgoing is alive
  event_outgoing,         \* events the machine emitted
  event_open,             \* the event receiver is alive
  device_write,           \* write requests in flight from the device
  device_read,            \* what the machine forwarded to the device
  device_alive,           \* the device side holds its channel ends
  env_steps,              \* steps the environment has taken
  last_scan_cmd           \* history: last Start/StopScanning consumed
                          \* during this stay in WaitForDongle, Scanning or
                          \* StopScanningAndConnect

ctl == <<state, pc, should_scan, device_id>>
hubq == <<dongle_incoming, dongle_in_open, dongle_outgoing, dongle_out_open>>
devq == <<device_write, device_read, device_alive>>

vars ==
  <<state, pc, should_scan, device_id, is_scanning, failure,
    comm_manager_incoming, comm_open, dongle_incoming, dongle_in_open,
    dongle_outgoing, dongle_out_open, event_outgoing, event_open,
    device_write, device_read, device_alive, env_steps, last_scan_cmd>>

\* State of the XInput gamepad manager (xinput_device_comm_manager.rs)
VARIABLES
  connected_gamepads,     \* XInputConnectionTracker: the AtomicU8 bitmap, as
                          \* the set of the slots whose bit is set
  check_running,          \* XInputConnectionTracker: the AtomicBool
  present,                \* slots for which get_state answers Ok
  pollers,                \* the check_gamepad_connectivity tasks
  callers,                \* the tasks that call add / add_with_sender
  gamepad_events,         \* what the manager and the pollers emitted
  gamepad_steps           \* steps the gamepad environment has taken

gamepad_vars ==
  <<connected_gamepads, check_running, present, pollers, callers,
    gamepad_events, gamepad_steps>>

\* Bounds of the gamepad environment
MaxGamepadSteps == 4   \* steps the gamepad environment takes over a run
MaxPollers == 2        \* polling tasks alive at a time
MaxUsedSlot == 1       \* the environment uses the slots 0 .. MaxUsedSlot

\* XInputControllerIndex: four controllers, 0..3 as bit positions
SlotCount == 4
Slots == 0 .. (SlotCount - 1)
UsedSlots == {i \in Slots : i <= MaxUsedSlot}

\* create_address / to_string of an XInputControllerIndex: the variant's name
create_address(index) ==
  CASE index = 0 -> "XInputController1"
    [] index = 1 -> "XInputController2"
    [] index = 2 -> "XInputController3"
    [] OTHER -> "XInputController4"

\* HardwareEvent::Disconnected
Disconnected(address) == [ev |-> "Disconnected", address |-> address]

\* A task slot with no check_gamepad_connectivity task in it
NoPoller == [pc |-> "free", gamepads |-> {}, index |-> 0, sender |-> FALSE]
PollerIds == 1 .. MaxPollers

\* The tasks that call into the tracker: the scanning loop of start_scanning
\* and one other holder of the tracker
CallerIds == {"scanner", "holder"}
Resting(c) ==
  [pc |-> IF c = "scanner" THEN "off" ELSE "idle", op |-> "none", index |-> 0,
   connected |-> {}, should_start |-> FALSE,
   stop_raised |-> FALSE]   \* history: stop_scanning ran during this loop

\* XInputDeviceCommunicationManager::new: empty tracker, nothing plugged
GamepadInit ==
  /\ connected_gamepads = {}
  /\ check_running = FALSE
  /\ present = {}
  /\ pollers = [p \in PollerIds |-> NoPoller]
  /\ callers = [c \in CallerIds |-> Resting(c)]
  /\ gamepad_events = <<>>
  /\ gamepad_steps = 0

Alive(p) == pollers[p].pc # "free"

\* State of a device driven by the MagicMotionV4 protocol
\* (magic_motion_v4.rs)
VARIABLES
  vibrations,             \* the command manager: the committed speed of
                          \* each motor; <<>> while no device exists
  tx,                     \* the writes the hardware received
  hardware_ok,            \* the hardware accepts writes
  reply,                  \* what the last handler call returned
  last_msg,               \* history: the message of the last call
  last_writes,            \* history: the writes the last call made
  last_call,              \* history: the message type of the last call
  protocol_steps          \* calls made so far

protocol_vars ==
  <<vibrations, tx, hardware_ok, reply, last_msg, last_writes, last_call,
    protocol_steps>>

\* Bounds of the protocol's callers
MaxProtocolSteps == 4  \* calls and hardware failures over a run
MaxSubcommands == 2    \* subcommands of one VibrateCmd

\* The frame of the protocol has a block for each of two motors
MotorBlocks == 2

\* No device yet, nothing written
ProtocolInit ==
  /\ vibrations = <<>>
  /\ tx = <<>>
  /\ hardware_ok = TRUE
  /\ reply = "none"
  /\ last_msg = <<>>
  /\ last_writes = 0
  /\ last_call = "none"
  /\ protocol_steps = 0

\* State of an embedded client connector (client/connector.rs)
VARIABLES
  server,                 \* ButtplugEmbeddedClientConnector.server
  created,                \* servers constructed so far
  delivered,              \* the messages servers received, each with the
                          \* server that received it
  returned,               \* what the last call returned
  last_op,                \* history: the last call
  linked,                 \* history: connect was called since construction
                          \* or since the last disconnect
  connector_steps         \* calls made so far

connector_vars ==
  <<server, created, delivered, returned, last_op, linked, connector_steps>>

\* Bound of the connector's caller
MaxConnectorSteps == 5  \* calls over a run

\* Option<ButtplugServer>: the n-th server constructed, or None
NoServer == [some |-> FALSE, id |-> 0]
SomeServer(n) == [some |-> TRUE, id |-> n]

\* ButtplugEmbeddedClientConnector::new
ConnectorInit ==
  /\ server = NoServer
  /\ created = 0
  /\ delivered = <<>>
  /\ returned = "none"
  /\ last_op = "new"
  /\ linked = FALSE
  /\ connector_steps = 0

\* What every step of one component leaves alone: the other components
elsewhere_of_dongle == <<gamepad_vars, protocol_vars, connector_vars>>
elsewhere_of_gamepad == <<vars, protocol_vars, connector_vars>>
elsewhere_of_protocol == <<vars, gamepad_vars, connector_vars>>
elsewhere_of_connector == <<vars, gamepad_vars, protocol_vars>>

\* create_lovense_dongle_machine: the machine starts in WaitForDongle
Init ==
  /\ state = "WaitForDongle"
  /\ pc = "recv"
  /\ should_scan = FALSE
  /\ device_id = "none"
  /\ is_scanning = FALSE
  /\ failure = "none"
  /\ comm_manager_incoming = <<>>
  /\ comm_open = TRUE
  /\ dongle_incoming = <<>>
  /\ dongle_in_open = FALSE
  /\ dongle_outgoing = <<>>
  /\ dongle_out_open = FALSE
  /\ event_outgoing = <<>>
  /\ event_open = TRUE
  /\ device_write = <<>>
  /\ device_read = <<>>
  /\ device_alive = FALSE
  /\ env_steps = 0
  /\ last_scan_cmd = "none"

\* The task is alive: it has neither returned None nor panicked
Running == state # "Done" /\ failure = "none"

\* A ChannelHub exists (the states other than WaitForDongle own one)
HasHub == Running /\ state # "WaitForDongle"

\* ------------------------------------------------------------------------
\* Environment
\* ------------------------------------------------------------------------
\* The comm manager submits a command
SendCommand(c) ==
  /\ Running /\ comm_open
  /\ env_steps < MaxEnvSteps /\ env_steps' = env_steps + 1
  /\ Len(comm_manager_incoming) < MaxQueue
  /\ comm_manager_incoming' = Append(comm_manager_incoming, c)
  /\ UNCHANGED <<ctl, is_scanning, failure, comm_open, hubq, event_outgoing,
                 event_open, devq, last_scan_cmd>>
  /\ UNCHANGED elsewhere_of_dongle

\* The last command sender is dropped (external cancellation)
CloseComm ==
  /\ Running /\ comm_open
  /\ env_steps < MaxEnvSteps /\ env_steps' = env_steps + 1
  /\ comm_open' = FALSE
  /\ UNCHANGED <<ctl, is_scanning, failure, comm_manager_incoming, hubq,
                 event_outgoing, event_open, devq, last_scan_cmd>>
  /\ UNCHANGED elsewhere_of_dongle

\* The serial port reader delivers a message from the dongle
InjectDongle(m) ==
  /\ HasHub /\ dongle_in_open
  /\ env_steps < MaxEnvSteps /\ env_steps' = env_steps + 1
  /\ Len(dongle_incoming) < MaxQueue
  /\ dongle_incoming' = Append(dongle_incoming, m)
  /\ UNCHANGED <<ctl, is_scanning, failure, comm_manager_incoming, comm_open,
                 dongle_in_open, dongle_outgoing, dongle_out_open,
                 event_outgoing, event_open, devq, last_scan_cmd>>
  /\ UNCHANGED elsewhere_of_dongle

\* The serial port reader goes away: its sender is dropped
CloseDongleIn ==
  /\ HasHub /\ dongle_in_open
  /\ env_steps < MaxEnvSteps /\ env_steps' = env_steps + 1
  /\ dongle_in_open' = FALSE
  /\ UNCHANGED <<ctl, is_scanning, failure, comm_manager_incoming, comm_open,
                 dongle_incoming, dongle_outgoing, dongle_out_open,
                 event_outgoing, event_open, devq, last_scan_cmd>>
  /\ UNCHANGED elsewhere_of_dongle

\* The serial port writer goes away: its receiver is dropped
CloseDongleOut ==
  /\ HasHub /\ dongle_out_open
  /\ env_steps < MaxEnvSteps /\ env_steps' = env_steps + 1
  /\ dongle_out_open' = FALSE
  /\ UNCHANGED <<ctl, is_scanning, failure, comm_manager_incoming, comm_open,
                 dongle_incoming, dongle_in_open, dongle_outgoing,
                 event_outgoing, event_open, devq, last_scan_cmd>>
  /\ UNCHANGED elsewhere_of_dongle

\* The event consumer goes away: the event receiver is dropped
CloseEvent ==
  /\ Running /\ event_open
  /\ env_steps < MaxEnvSteps /\ env_steps' = env_steps + 1
  /\ event_open' = FALSE
  /\ UNCHANGED <<ctl, is_scanning, failure, comm_manager_incoming, comm_open,
                 hubq, event_outgoing, devq, last_scan_cmd>>
  /\ UNCHANGED elsewhere_of_dongle

\* The attached device submits a write request
DeviceWrite(o) ==
  /\ Running /\ state = "DeviceLoop" /\ pc = "wait" /\ device_alive
  /\ env_steps < MaxEnvSteps /\ env_steps' = env_steps + 1
  /\ Len(device_write) < MaxQueue
  /\ device_write' = Append(device_write, o)
  /\ UNCHANGED <<ctl, is_scanning, failure, comm_manager_incoming, comm_open,
                 hubq, event_outgoing, event_open, device_read, device_alive,
                 last_scan_cmd>>
  /\ UNCHANGED elsewhere_of_dongle

\* The device object (or the creator carrying its channel ends) is dropped
DropDevice ==
  /\ Running /\ state = "DeviceLoop" /\ pc = "wait" /\ device_alive
  /\ env_steps < MaxEnvSteps /\ env_steps' = env_steps + 1
  /\ device_alive' = FALSE
  /\ UNCHANGED <<ctl, is_scanning, failure, comm_manager_incoming, comm_open,
                 hubq, event_outgoing, event_open, device_write, device_read,
                 last_scan_cmd>>
  /\ UNCHANGED elsewhere_of_dongle

\* ------------------------------------------------------------------------
\* ChannelHub
\* ------------------------------------------------------------------------
\* recv() on the command channel: the head of the queue, or None once the
\* queue is empty and every sender is gone; otherwise the future is pending
CommReady ==
  IF comm_manager_incoming # <<>> THEN {CommMgr(Head(comm_manager_incoming))}
  ELSE IF ~comm_open THEN {Disconnect} ELSE {}

DongleReady ==
  IF dongle_incoming # <<>> THEN {Dongle(Head(dongle_incoming))}
  ELSE IF ~dongle_in_open THEN {Disconnect} ELSE {}

DeviceReady ==
  IF device_write # <<>> THEN {Device(Head(device_write))}
  ELSE IF ~device_alive THEN {Disconnect} ELSE {}

\* select! over the ready futures: any of them may win
wait_for_input == CommReady \cup DongleReady

wait_for_device_input == CommReady \cup DongleReady \cup DeviceReady

\* The channel an input was taken from loses its head
PopComm(in) ==
  IF in.kind = "CommMgr" THEN Tail(comm_manager_incoming)
  ELSE comm_manager_incoming

PopDongle(in) ==
  IF in.kind = "Dongle" THEN Tail(dongle_incoming) ELSE dongle_incoming

\* PopDevice with the request left at the head of the channel
PopDevice_Keep(in) == device_write

PopDevice(in) ==
  IF in.kind = "Device" THEN Tail(device_write) ELSE device_write

\* dongle_outgoing.send(msg).await.unwrap()
send_output(msg) ==
  IF dongle_out_open
    THEN dongle_outgoing' = Append(dongle_outgoing, msg) /\ failure' = failure
    ELSE dongle_outgoing' = dongle_outgoing /\ failure' = "send_closed"

\* send_event sending the event twice
send_event_Twice(msg) ==
  IF event_open
    THEN /\ event_outgoing' = Append(Append(event_outgoing, msg), msg)
         /\ failure' = failure
    ELSE event_outgoing' = event_outgoing /\ failure' = "send_closed"

\* event_outgoing.send(msg).await.unwrap()
send_event(msg) ==
  IF event_open
    THEN event_outgoing' = Append(event_outgoing, msg) /\ failure' = failure
    ELSE event_outgoing' = event_outgoing /\ failure' = "send_closed"

\* is_scanning.store(v)
set_scanning_status(v) == is_scanning' = v

\* EntryPc with the probe of Idle left out
EntryPc_NoProbe(s) ==
  CASE s = "Idle" -> "wait"
    [] s = "StartScanning" -> "flag"
    [] s = "StopScanning" -> "send"
    [] s = "StopScanningAndConnect" -> "send"
    [] s = "DeviceLoop" -> "found"
    [] s = "Scanning" -> "wait"
    [] s = "WaitForDongle" -> "recv"
    [] OTHER -> "none"

\* Where the transition() of a state starts
EntryPc(s) ==
  CASE s = "Idle" -> "probe"
    [] s = "StartScanning" -> "flag"
    [] s = "StopScanning" -> "send"
    [] s = "StopScanningAndConnect" -> "send"
    [] s = "DeviceLoop" -> "found"
    [] s = "Scanning" -> "wait"
    [] s = "WaitForDongle" -> "recv"
    [] OTHER -> "none"

\* The next state object is constructed and its transition() is called
Goto(s, p, id) ==
  /\ state' = s
  /\ pc' = p
  /\ device_id' = id
  /\ should_scan' = FALSE
  /\ last_scan_cmd' = "none"

Enter(s, id) == Goto(s, EntryPc(s), id)

\* The running transition() keeps its place
Stay == UNCHANGED <<ctl, last_scan_cmd>>

\* The running transition() logs the input it does not handle and keeps
\* its place
Discard(in) ==
  /\ UNCHANGED ctl
  /\ last_scan_cmd' =
       IF in.kind = "CommMgr" /\ in.cmd \in {"StartScanning", "StopScanning"}
         THEN in.cmd ELSE last_scan_cmd

\* The hub's dongle channel ends are dropped with the hub
DropHub ==
  /\ dongle_incoming' = <<>>
  /\ dongle_in_open' = FALSE
  /\ dongle_outgoing' = <<>>
  /\ dongle_out_open' = FALSE

\* The per-device channels of a DeviceLoop are dropped with it
DropDev ==
  /\ device_write' = <<>>
  /\ device_read' = <<>>
  /\ device_alive' = FALSE

\* The hub is taken apart; only the command receiver, the event sender and
\* the flag go on into a new WaitForDongle
create_new_wait_for_dongle_state ==
  /\ Enter("WaitForDongle", "none")
  /\ DropHub

\* ------------------------------------------------------------------------
\* WaitForDongle
\* ------------------------------------------------------------------------
\* AfterDongleFound with the latch ignored
AfterDongleFound_IgnoreLatch(latch) == "Idle"

\* The state that follows DongleFound
AfterDongleFound(latch) == IF latch THEN "StartScanning" ELSE "Idle"

\* One round of `while let Some(msg) = self.comm_receiver.recv().await`
WaitForDongle ==
  /\ Running /\ state = "WaitForDongle"
  /\ \E in \in CommReady :
       /\ comm_manager_incoming' = PopComm(in)
       /\ CASE in.kind = "Disconnect" ->
                 /\ state' = "Done" /\ pc' = "none"
                 /\ UNCHANGED <<should_scan, device_id, last_scan_cmd, hubq>>
            [] in.kind = "CommMgr" /\ in.cmd = "DongleFound" ->
                 /\ Enter(AfterDongleFound(should_scan), "none")
                 /\ dongle_incoming' = <<>>
                 /\ dongle_in_open' = TRUE
                 /\ dongle_outgoing' = <<>>
                 /\ dongle_out_open' = TRUE
            [] in.kind = "CommMgr" /\ in.cmd = "StartScanning" ->
                 /\ should_scan' = TRUE
                 /\ last_scan_cmd' = "StartScanning"
                 /\ UNCHANGED <<state, pc, device_id, hubq>>
            [] in.kind = "CommMgr" /\ in.cmd = "StopScanning" ->
                 /\ should_scan' = FALSE
                 /\ last_scan_cmd' = "StopScanning"
                 /\ UNCHANGED <<state, pc, device_id, hubq>>
  /\ UNCHANGED <<is_scanning, failure, comm_open, event_outgoing, event_open,
                 devq, env_steps>>
  /\ UNCHANGED elsewhere_of_dongle

\* ------------------------------------------------------------------------
\* Idle
\* ------------------------------------------------------------------------
\* The Status/Toy probe written on entry (followed by the 250 ms delay)
IdleProbe ==
  /\ Running /\ state = "Idle" /\ pc = "probe"
  /\ send_output(OutMessage("Statuss", "Toy"))
  /\ pc' = IF dongle_out_open THEN "wait" ELSE pc
  /\ UNCHANGED <<state, should_scan, device_id, is_scanning,
                 comm_manager_incoming, comm_open, dongle_incoming,
                 dongle_in_open, dongle_out_open, event_outgoing, event_open,
                 devq, env_steps, last_scan_cmd>>
  /\ UNCHANGED elsewhere_of_dongle

\* One round of the input loop
IdleInput ==
  /\ Running /\ state = "Idle" /\ pc = "wait"
  /\ \E in \in wait_for_input :
       /\ comm_manager_incoming' = PopComm(in)
       /\ CASE /\ in.kind = "Dongle" /\ in.dongle.func = "IncomingStatus"
               /\ in.dongle.has_data
               /\ in.dongle.status = "DeviceConnectSuccess" ->
                 \* incoming_data.id.unwrap()
                 IF in.dongle.id = "none"
                   THEN /\ failure' = "unwrap_none"
                        /\ Stay
                        /\ dongle_incoming' = PopDongle(in)
                        /\ UNCHANGED <<dongle_in_open, dongle_outgoing,
                                       dongle_out_open>>
                   ELSE /\ Enter("DeviceLoop", in.dongle.id)
                        /\ dongle_incoming' = PopDongle(in)
                        /\ UNCHANGED <<failure, dongle_in_open,
                                       dongle_outgoing, dongle_out_open>>
            [] in.kind = "CommMgr" /\ in.cmd = "StartScanning" ->
                 /\ Enter("StartScanning", "none")
                 /\ UNCHANGED <<failure, hubq>>
            [] in.kind = "CommMgr" /\ in.cmd = "StopScanning" ->
                 /\ Enter("StopScanning", "none")
                 /\ UNCHANGED <<failure, hubq>>
            [] in.kind = "Disconnect" ->
                 /\ create_new_wait_for_dongle_state
                 /\ UNCHANGED failure
            [] OTHER ->
                 /\ Stay
                 /\ dongle_incoming' = PopDongle(in)
                 /\ UNCHANGED <<failure, dongle_in_open, dongle_outgoing,
                                dongle_out_open>>
  /\ UNCHANGED <<is_scanning, comm_open, event_outgoing, event_open, devq,
                 env_steps>>
  /\ UNCHANGED elsewhere_of_dongle

\* ------------------------------------------------------------------------
\* StartScanning
\* ------------------------------------------------------------------------
StartScanningFlag ==
  /\ Running /\ state = "StartScanning" /\ pc = "flag"
  /\ set_scanning_status(TRUE)
  /\ pc' = "send"
  /\ UNCHANGED <<state, should_scan, device_id, failure,
                 comm_manager_incoming, comm_open, hubq, event_outgoing,
                 event_open, devq, env_steps, last_scan_cmd>>
  /\ UNCHANGED elsewhere_of_dongle

StartScanningSend ==
  /\ Running /\ state = "StartScanning" /\ pc = "send"
  /\ send_output(OutMessage("Search", "Toy"))
  /\ IF dongle_out_open THEN Enter("Scanning", "none") ELSE Stay
  /\ UNCHANGED <<is_scanning, comm_manager_incoming, comm_open,
                 dongle_incoming, dongle_in_open, dongle_out_open,
                 event_outgoing, event_open, devq, env_steps>>
  /\ UNCHANGED elsewhere_of_dongle

\* ------------------------------------------------------------------------
\* Scanning
\* ------------------------------------------------------------------------
\* ScanningInput with a StopScanning command stopping the scan
ScanningInput_HandlesStop ==
  /\ Running /\ state = "Scanning" /\ pc = "wait"
  /\ \E in \in wait_for_input :
       /\ comm_manager_incoming' = PopComm(in)
       /\ CASE /\ in.kind = "Dongle" /\ in.dongle.func = "ToyData"
               /\ in.dongle.has_data ->
                 \* data.id.unwrap()
                 IF in.dongle.id = "none"
                   THEN /\ failure' = "unwrap_none"
                        /\ Stay
                        /\ dongle_incoming' = PopDongle(in)
                        /\ UNCHANGED <<dongle_in_open, dongle_outgoing,
                                       dongle_out_open>>
                   ELSE /\ Enter("StopScanningAndConnect", in.dongle.id)
                        /\ dongle_incoming' = PopDongle(in)
                        /\ UNCHANGED <<failure, dongle_in_open,
                                       dongle_outgoing, dongle_out_open>>
            [] /\ in.kind = "Dongle" /\ in.dongle.func = "ToyData"
               /\ ~in.dongle.has_data /\ in.dongle.result # "none" ->
                 /\ Enter("Idle", "none")
                 /\ dongle_incoming' = PopDongle(in)
                 /\ UNCHANGED <<failure, dongle_in_open, dongle_outgoing,
                                dongle_out_open>>
            [] in.kind = "CommMgr" /\ in.cmd = "StopScanning" ->
                 /\ Enter("StopScanning", "none")
                 /\ UNCHANGED <<failure, hubq>>
            [] in.kind = "Disconnect" ->
                 /\ create_new_wait_for_dongle_state
                 /\ UNCHANGED failure
            [] OTHER ->
                 /\ Discard(in)
                 /\ dongle_incoming' = PopDongle(in)
                 /\ UNCHANGED <<failure, dongle_in_open, dongle_outgoing,
                                dongle_out_open>>
  /\ UNCHANGED <<is_scanning, comm_open, event_outgoing, event_open, devq,
                 env_steps>>
  /\ UNCHANGED elsewhere_of_dongle

\* One round of the input loop
ScanningInput ==
  /\ Running /\ state = "Scanning" /\ pc = "wait"
  /\ \E in \in wait_for_input :
       /\ comm_manager_incoming' = PopComm(in)
       /\ CASE /\ in.kind = "Dongle" /\ in.dongle.func = "ToyData"
               /\ in.dongle.has_data ->
                 \* data.id.unwrap()
                 IF in.dongle.id = "none"
                   THEN /\ failure' = "unwrap_none"
                        /\ Stay
                        /\ dongle_incoming' = PopDongle(in)
                        /\ UNCHANGED <<dongle_in_open, dongle_outgoing,
                                       dongle_out_open>>
                   ELSE /\ Enter("StopScanningAndConnect", in.dongle.id)
                        /\ dongle_incoming' = PopDongle(in)
                        /\ UNCHANGED <<failure, dongle_in_open,
                                       dongle_outgoing, dongle_out_open>>
            [] /\ in.kind = "Dongle" /\ in.dongle.func = "ToyData"
               /\ ~in.dongle.has_data /\ in.dongle.result # "none" ->
                 /\ Enter("Idle", "none")
                 /\ dongle_incoming' = PopDongle(in)
                 /\ UNCHANGED <<failure, dongle_in_open, dongle_outgoing,
                                dongle_out_open>>
            [] in.kind = "Disconnect" ->
                 /\ create_new_wait_for_dongle_state
                 /\ UNCHANGED failure
            [] OTHER ->
                 /\ Discard(in)
                 /\ dongle_incoming' = PopDongle(in)
                 /\ UNCHANGED <<failure, dongle_in_open, dongle_outgoing,
                                dongle_out_open>>
  /\ UNCHANGED <<is_scanning, comm_open, event_outgoing, event_open, devq,
                 env_steps>>
  /\ UNCHANGED elsewhere_of_dongle

\* ------------------------------------------------------------------------
\* StopScanning
\* ------------------------------------------------------------------------
StopScanningSend ==
  /\ Running /\ state = "StopScanning" /\ pc = "send"
  /\ send_output(OutMessage("StopSearch", "USB"))
  /\ pc' = IF dongle_out_open THEN "flag" ELSE pc
  /\ UNCHANGED <<state, should_scan, device_id, is_scanning,
                 comm_manager_incoming, comm_open, dongle_incoming,
                 dongle_in_open, dongle_out_open, event_outgoing, event_open,
                 devq, env_steps, last_scan_cmd>>
  /\ UNCHANGED elsewhere_of_dongle

StopScanningFlag ==
  /\ Running /\ state = "StopScanning" /\ pc = "flag"
  /\ set_scanning_status(FALSE)
  /\ pc' = "event"
  /\ UNCHANGED <<state, should_scan, device_id, failure,
                 comm_manager_incoming, comm_open, hubq, event_outgoing,
                 event_open, devq, env_steps, last_scan_cmd>>
  /\ UNCHANGED elsewhere_of_dongle

\* StopScanningEvent with the event left out
StopScanningEvent_Silent ==
  /\ Running /\ state = "StopScanning" /\ pc = "event"
  /\ state' = "Done" /\ pc' = "none"
  /\ UNCHANGED <<should_scan, device_id, is_scanning, failure,
                 comm_manager_incoming, comm_open, hubq, event_outgoing,
                 event_open, devq, env_steps, last_scan_cmd>>
  /\ UNCHANGED elsewhere_of_dongle

\* StopScanningEvent with the machine going back to Idle
StopScanningEvent_ToIdle ==
  /\ Running /\ state = "StopScanning" /\ pc = "event"
  /\ send_event(ScanningFinished)
  /\ IF event_open THEN Enter("Idle", "none") ELSE Stay
  /\ UNCHANGED <<is_scanning, comm_manager_incoming, comm_open, hubq,
                 event_open, devq, env_steps>>
  /\ UNCHANGED elsewhere_of_dongle

\* The event is sent and transition() returns None
StopScanningEvent ==
  /\ Running /\ state = "StopScanning" /\ pc = "event"
  /\ send_event(ScanningFinished)
  /\ IF event_open THEN state' = "Done" /\ pc' = "none"
                   ELSE UNCHANGED <<state, pc>>
  /\ UNCHANGED <<should_scan, device_id, is_scanning, comm_manager_incoming,
                 comm_open, hubq, event_open, devq, env_steps, last_scan_cmd>>
  /\ UNCHANGED elsewhere_of_dongle

\* ------------------------------------------------------------------------
\* StopScanningAndConnect
\* ------------------------------------------------------------------------
StopScanningAndConnectSend ==
  /\ Running /\ state = "StopScanningAndConnect" /\ pc = "send"
  /\ send_output(OutMessage("StopSearch", "USB"))
  /\ pc' = IF dongle_out_open THEN "wait" ELSE pc
  /\ UNCHANGED <<state, should_scan, device_id, is_scanning,
                 comm_manager_incoming, comm_open, dongle_incoming,
                 dongle_in_open, dongle_out_open, event_outgoing, event_open,
                 devq, env_steps, last_scan_cmd>>
  /\ UNCHANGED elsewhere_of_dongle

\* IsSearchAck with the result not looked at
IsSearchAck_AnyResult(m) == m.func = "Search"

\* The message that ends the wait: func Search, result Some(SearchStopped)
IsSearchAck(m) == m.func = "Search" /\ m.result = "SearchStopped"

\* One round of the loop that waits for the Search ack
StopScanningAndConnectInput ==
  /\ Running /\ state = "StopScanningAndConnect" /\ pc = "wait"
  /\ \E in \in wait_for_input :
       /\ comm_manager_incoming' = PopComm(in)
       /\ CASE in.kind = "Dongle" /\ IsSearchAck(in.dongle) ->
                 \* break
                 /\ pc' = "flag"
                 /\ UNCHANGED <<state, should_scan, device_id, last_scan_cmd>>
                 /\ dongle_incoming' = PopDongle(in)
                 /\ UNCHANGED <<dongle_in_open, dongle_outgoing,
                                dongle_out_open>>
            [] in.kind = "Disconnect" ->
                 create_new_wait_for_dongle_state
            [] OTHER ->
                 /\ Discard(in)
                 /\ dongle_incoming' = PopDongle(in)
                 /\ UNCHANGED <<dongle_in_open, dongle_outgoing,
                                dongle_out_open>>
  /\ UNCHANGED <<is_scanning, failure, comm_open, event_outgoing, event_open,
                 devq, env_steps>>
  /\ UNCHANGED elsewhere_of_dongle

\* StopScanningAndConnectFlag going on to DeviceLoop with no event sent
StopScanningAndConnectFlag_NoEvent ==
  /\ Running /\ state = "StopScanningAndConnect" /\ pc = "flag"
  /\ set_scanning_status(FALSE)
  /\ Enter("DeviceLoop", device_id)
  /\ UNCHANGED <<failure, comm_manager_incoming, comm_open, hubq,
                 event_outgoing, event_open, devq, env_steps>>
  /\ UNCHANGED elsewhere_of_dongle

StopScanningAndConnectFlag ==
  /\ Running /\ state = "StopScanningAndConnect" /\ pc = "flag"
  /\ set_scanning_status(FALSE)
  /\ pc' = "event"
  /\ UNCHANGED <<state, should_scan, device_id, failure,
                 comm_manager_incoming, comm_open, hubq, event_outgoing,
                 event_open, devq, env_steps, last_scan_cmd>>
  /\ UNCHANGED elsewhere_of_dongle

StopScanningAndConnectEvent ==
  /\ Running /\ state = "StopScanningAndConnect" /\ pc = "event"
  /\ send_event(ScanningFinished)
  /\ IF event_open THEN Enter("DeviceLoop", device_id) ELSE Stay
  /\ UNCHANGED <<is_scanning, comm_manager_incoming, comm_open, hubq,
                 event_open, devq, env_steps>>
  /\ UNCHANGED elsewhere_of_dongle

\* ------------------------------------------------------------------------
\* DeviceLoop
\* ------------------------------------------------------------------------
\* The per-device channels are created and DeviceFound carries their far
\* ends to the event consumer
DeviceLoopFound ==
  /\ Running /\ state = "DeviceLoop" /\ pc = "found"
  /\ send_event(DeviceFound(device_id))
  /\ pc' = IF event_open THEN "wait" ELSE pc
  /\ device_write' = <<>>
  /\ device_read' = <<>>
  /\ device_alive' = event_open
  /\ UNCHANGED <<state, should_scan, device_id, is_scanning,
                 comm_manager_incoming, comm_open, hubq, event_open, env_steps,
                 last_scan_cmd>>
  /\ UNCHANGED elsewhere_of_dongle

\* One round of the three-way select
DeviceLoopInput ==
  /\ Running /\ state = "DeviceLoop" /\ pc = "wait"
  /\ \E in \in wait_for_device_input :
       /\ comm_manager_incoming' = PopComm(in)
       /\ CASE in.kind = "Device" ->
                 /\ send_output(in.device)
                 /\ Stay
                 /\ device_write' = PopDevice(in)
                 /\ UNCHANGED <<dongle_incoming, dongle_in_open,
                                dongle_out_open, device_read, device_alive,
                                event_outgoing>>
            [] in.kind = "Dongle" /\ in.dongle.func = "IncomingStatus" ->
                 IF in.dongle.has_data /\ in.dongle.status = "DeviceDisconnected"
                   THEN /\ Enter("Idle", "none")
                        /\ DropDev
                        /\ dongle_incoming' = PopDongle(in)
                        /\ UNCHANGED <<failure, dongle_in_open,
                                       dongle_outgoing, dongle_out_open,
                                       event_outgoing>>
                   ELSE /\ Stay
                        /\ dongle_incoming' = PopDongle(in)
                        /\ UNCHANGED <<failure, dongle_in_open,
                                       dongle_outgoing, dongle_out_open,
                                       devq, event_outgoing>>
            [] in.kind = "Dongle" /\ in.dongle.func # "IncomingStatus" ->
                 \* device_read_sender.send(dongle_msg).await.unwrap()
                 /\ IF device_alive
                      THEN /\ device_read' = Append(device_read, in.dongle)
                           /\ failure' = failure
                      ELSE /\ device_read' = device_read
                           /\ failure' = "send_closed"
                 /\ Stay
                 /\ dongle_incoming' = PopDongle(in)
                 /\ UNCHANGED <<dongle_in_open, dongle_outgoing,
                                dongle_out_open, device_write, device_alive,
                                event_outgoing>>
            [] in.kind = "CommMgr" /\ in.cmd = "StartScanning" ->
                 /\ send_event(ScanningFinished)
                 /\ Stay
                 /\ UNCHANGED <<hubq, devq>>
            [] in.kind = "CommMgr" /\ in.cmd = "StopScanning" ->
                 /\ send_event(ScanningFinished)
                 /\ Stay
                 /\ UNCHANGED <<hubq, devq>>
            [] in.kind = "CommMgr" /\ in.cmd = "DongleFound" ->
                 /\ Stay
                 /\ UNCHANGED <<failure, hubq, devq, event_outgoing>>
            [] in.kind = "Disconnect" ->
                 /\ create_new_wait_for_dongle_state
                 /\ DropDev
                 /\ UNCHANGED <<failure, event_outgoing>>
  /\ UNCHANGED <<is_scanning, comm_open, event_open, env_steps>>
  /\ UNCHANGED elsewhere_of_dongle

\* ------------------------------------------------------------------------
\* The machine and its environment
\* ------------------------------------------------------------------------
Environment ==
  \/ \E c \in LovenseDeviceCommand : SendCommand(c)
  \/ CloseComm
  \/ \E m \in DongleMsgs : InjectDongle(m)
  \/ CloseDongleIn
  \/ CloseDongleOut
  \/ CloseEvent
  \/ \E o \in DeviceWrites : DeviceWrite(o)
  \/ DropDevice

Machine ==
  \/ WaitForDongle
  \/ IdleProbe
  \/ IdleInput
  \/ StartScanningFlag
  \/ StartScanningSend
  \/ ScanningInput
  \/ StopScanningSend
  \/ StopScanningFlag
  \/ StopScanningEvent
  \/ StopScanningAndConnectSend
  \/ StopScanningAndConnectInput
  \/ StopScanningAndConnectFlag
  \/ StopScanningAndConnectEvent
  \/ DeviceLoopFound
  \/ DeviceLoopInput

Next == Environment \/ Machine

\* The components of the server as constructed
ServerInit == Init /\ GamepadInit /\ ProtocolInit /\ ConnectorInit

Spec == ServerInit /\ [][Next]_vars

\* The task runtime keeps polling the machine's task: a step of the machine
\* that stays possible is eventually taken
FairSpec == Spec /\ WF_vars(Machine)

\* ------------------------------------------------------------------------
\* Properties
\* ------------------------------------------------------------------------
\* This step is the machine taking command c off the command channel
TakesCommand(c) ==
  /\ comm_manager_incoming # <<>>
  /\ Head(comm_manager_incoming) = c
  /\ comm_manager_incoming' = Tail(comm_manager_incoming)

\* This step is the machine taking message m off the dongle channel
TakesDongle(m) ==
  /\ dongle_incoming # <<>>
  /\ Head(dongle_incoming) = m
  /\ dongle_incoming' = Tail(dongle_incoming)
  /\ state' # "WaitForDongle"

\* This step takes nothing off the command and dongle channels
TakesNoInput ==
  /\ Len(comm_manager_incoming') >= Len(comm_manager_incoming)
  /\ Len(dongle_incoming') >= Len(dongle_incoming)

\* C1: whenever the machine awaits input or has terminated, the scanning
\* flag is true if and only if the live state is Scanning or
\* StopScanningAndConnect.
ScanningFlagMatchesState ==
  (failure = "none" /\ pc \in {"recv", "wait", "none"}) =>
    (is_scanning <=> state \in {"Scanning", "StopScanningAndConnect"})

\* C2: between two DeviceFound events for the same id on the event channel
\* there is a DeviceDisconnected event for that id (the machine emits
\* nothing after it has terminated).
OneDeviceFoundOutstanding ==
  \A i, j \in 1..Len(event_outgoing) :
    (/\ i < j
     /\ event_outgoing[i].ev = "DeviceFound"
     /\ event_outgoing[j] = event_outgoing[i]) =>
      \E k \in (i + 1)..(j - 1) :
        event_outgoing[k] =
          [ev |-> "DeviceDisconnected", address |-> event_outgoing[i].address]

ScanFindConnectOrder ==
  [][/\ (state = "Scanning" /\ dongle_incoming # <<>>) =>
          \A m \in DongleMsgs :
            (/\ TakesDongle(m) /\ m.func = "ToyData"
             /\ m.has_data /\ m.id # "none") =>
              /\ state' = "StopScanningAndConnect" /\ pc' = "send"
              /\ device_id' = m.id
              /\ UNCHANGED <<dongle_outgoing, event_outgoing>>
     /\ (state = "StopScanningAndConnect" /\ pc = "send") =>
          /\ TakesNoInput
          /\ UNCHANGED <<state, device_id, event_outgoing>>
          /\ \/ pc' = "send" /\ dongle_outgoing' = dongle_outgoing
             \/ /\ pc' = "wait"
                /\ dongle_outgoing' =
                     Append(dongle_outgoing, OutMessage("StopSearch", "USB"))
     /\ (state = "StopScanningAndConnect" /\ pc = "wait") =>
          /\ event_outgoing' = event_outgoing
          /\ state' \in {"StopScanningAndConnect", "WaitForDongle"}
          /\ state' = state =>
               /\ UNCHANGED <<device_id, dongle_outgoing>>
               /\ pc' \in {"wait", "flag"}
               /\ pc' = "flag" =>
                    TakesDongle([func |-> "Search", has_data |-> FALSE,
                                 id |-> "none", status |-> "none",
                                 result |-> "SearchStopped"])
     /\ (state = "StopScanningAndConnect" /\ pc = "flag") =>
          /\ TakesNoInput
          /\ UNCHANGED <<state, device_id, dongle_outgoing, event_outgoing>>
     /\ (state = "StopScanningAndConnect" /\ pc = "event") =>
          /\ TakesNoInput
          /\ UNCHANGED <<device_id, dongle_outgoing>>
          /\ \/ UNCHANGED <<state, pc, event_outgoing>>
             \/ /\ state' = "DeviceLoop" /\ pc' = "found"
                /\ event_outgoing' = Append(event_outgoing, ScanningFinished)
     /\ (state = "DeviceLoop" /\ pc = "found") =>
          /\ TakesNoInput
          /\ UNCHANGED <<state, device_id, dongle_outgoing>>
          /\ \/ UNCHANGED <<pc, event_outgoing>>
             \/ /\ pc' = "wait"
                /\ event_outgoing' =
                     Append(event_outgoing, DeviceFound(device_id))
    ]_vars

\* A scan found toy b and the device loop for b is running
ScanFindConnectOrderWitness ==
  /\ state = "DeviceLoop" /\ pc = "wait" /\ device_id = "b"
  /\ ~is_scanning
  /\ dongle_outgoing =
       <<OutMessage("Search", "Toy"), OutMessage("StopSearch", "USB")>>
  /\ event_outgoing = <<ScanningFinished, DeviceFound("b")>>

\* C5: DongleFound taken in WaitForDongle leads to StartScanning if the last
\* Start/StopScanning command taken during this stay was StartScanning, to
\* Idle otherwise; when the command channel is closed and empty the only
\* way out of WaitForDongle is termination.
WaitForDongleLatch ==
  [][/\ (state = "WaitForDongle" /\ TakesCommand("DongleFound")) =>
          state' = IF last_scan_cmd = "StartScanning" THEN "StartScanning"
                   ELSE "Idle"
     /\ (state = "WaitForDongle" /\ ~TakesCommand("DongleFound")) =>
          state' \in {"WaitForDongle", "Done"}
     /\ (state = "WaitForDongle" /\ state' = "Done") =>
          (~comm_open /\ comm_manager_incoming = <<>>)
     /\ (state # "WaitForDongle" /\ state' = "WaitForDongle") =>
          last_scan_cmd' = "none"
    ]_vars

\* DongleFound was taken with the latch set ...
WaitForDongleLatchWitness ==
  /\ state = "StartScanning" /\ pc = "flag"
  /\ dongle_outgoing = <<>> /\ ~is_scanning

\* C6: Idle starts with the Status/Toy probe, written before any input is
\* taken; IncomingStatus with DeviceConnectSuccess and id X taken in Idle
\* starts DeviceLoop(X) without a write or an event, and the first thing
\* DeviceLoop(X) does is to emit DeviceFound(X).
ColdStartConnect ==
  [][/\ (state # "Idle" /\ state' = "Idle") => pc' = "probe"
     /\ (state = "Idle" /\ pc = "probe") =>
          /\ TakesNoInput
          /\ UNCHANGED <<state, event_outgoing>>
          /\ \/ pc' = "probe" /\ dongle_outgoing' = dongle_outgoing
             \/ /\ pc' = "wait"
                /\ dongle_outgoing' =
                     Append(dongle_outgoing, OutMessage("Statuss", "Toy"))
     /\ (state = "Idle" /\ dongle_incoming # <<>>) =>
          \A m \in DongleMsgs :
            (/\ TakesDongle(m) /\ m.func = "IncomingStatus"
             /\ m.has_data /\ m.status = "DeviceConnectSuccess"
             /\ m.id # "none") =>
              /\ state' = "DeviceLoop" /\ pc' = "found" /\ device_id' = m.id
              /\ UNCHANGED <<dongle_outgoing, event_outgoing, is_scanning>>
     /\ (state = "DeviceLoop" /\ pc = "found" /\ pc' # "found") =>
          /\ TakesNoInput
          /\ state' = "DeviceLoop" /\ pc' = "wait"
          /\ dongle_outgoing' = dongle_outgoing
          /\ event_outgoing' = Append(event_outgoing, DeviceFound(device_id))
    ]_vars

\* The trace WaitForDongle -> Idle -> DeviceLoop(a) has been run
ColdStartConnectWitness ==
  /\ state = "DeviceLoop" /\ pc = "wait" /\ device_id = "a"
  /\ dongle_outgoing = <<OutMessage("Statuss", "Toy")>>
  /\ event_outgoing = <<DeviceFound("a")>>

\* C7: once the command channel is closed and drained, the machine
\* eventually reaches the terminal state.
CancelTerminates ==
  (~comm_open /\ comm_manager_incoming = <<>>) ~> (state = "Done")

\* C8: the machine never fails on a send into a channel whose peer end was
\* dropped.
ClosedChannelNeverFails == failure # "send_closed"

\* The state defines a transition, or a forwarding, for message m
Handled(s, m) ==
  CASE s = "Idle" ->
         /\ m.func = "IncomingStatus" /\ m.has_data
         /\ m.status = "DeviceConnectSuccess" /\ m.id # "none"
    [] s = "Scanning" ->
         /\ m.func = "ToyData"
         /\ (m.has_data /\ m.id # "none") \/ (~m.has_data /\ m.result # "none")
    [] s = "StopScanningAndConnect" ->
         m.func = "Search" /\ m.result = "SearchStopped"
    [] s = "DeviceLoop" ->
         \/ m.func # "IncomingStatus"
         \/ m.has_data /\ m.status = "DeviceDisconnected"
    [] OTHER -> FALSE

\* C9: a dongle message for which the state defines no transition is
\* discarded: taking it changes neither the state nor the flag nor any
\* output channel, and the machine does not fail.
UnexpectedMessageDiscarded ==
  [][\A m \in DongleMsgs :
       (pc = "wait" /\ TakesDongle(m) /\ ~Handled(state, m)) =>
         UNCHANGED <<state, pc, device_id, is_scanning, dongle_outgoing,
                     event_outgoing, device_read, failure>>
    ]_vars

\* C10: in DeviceLoop every dongle message other than IncomingStatus with
\* DeviceDisconnected is appended to the device's inbound channel, and
\* IncomingStatus with DeviceDisconnected moves the machine to Idle.
DeviceLoopForwardsAll ==
  [][\A m \in DongleMsgs :
       (/\ state = "DeviceLoop" /\ pc = "wait" /\ device_alive
        /\ TakesDongle(m)) =>
         IF /\ m.func = "IncomingStatus" /\ m.has_data
            /\ m.status = "DeviceDisconnected"
           THEN state' = "Idle"
           ELSE /\ state' = "DeviceLoop"
                /\ device_read' = Append(device_read, m)
    ]_vars

\* C11: in DeviceLoop the only writes to the dongle writer are the write
\* requests of the device, each taken from the head of the device's channel
\* and appended unchanged, once; a request that is taken is written (unless
\* the send fails, after which nothing more is written).
DeviceWritesForwarded ==
  [][(state = "DeviceLoop") =>
       \/ /\ dongle_outgoing' = dongle_outgoing
          /\ (/\ state' = "DeviceLoop" /\ device_write # <<>>
              /\ device_write' = Tail(device_write)) =>
               failure' = "send_closed"
       \/ /\ pc = "wait" /\ device_write # <<>>
          /\ dongle_outgoing' = Append(dongle_outgoing, Head(device_write))
          /\ device_write' = Tail(device_write)
          /\ state' = "DeviceLoop"
       \/ state' = "WaitForDongle"
    ]_vars

\* Two write requests of the device have reached the dongle writer in order
DeviceWritesForwardedWitness ==
  /\ state = "DeviceLoop" /\ pc = "wait" /\ device_write = <<>>
  /\ dongle_outgoing =
       <<OutMessage("Statuss", "Toy"), RawOut("p1"),
         OutMessage("Command", "Toy")>>

\* C12: a StartScanning or StopScanning command taken in DeviceLoop appends
\* exactly one ScanningFinished to the event channel and changes nothing
\* else: state, device id, flag, dongle writer and device channels stay.
DeviceLoopScanCommand ==
  [][\A c \in {"StartScanning", "StopScanning"} :
       (state = "DeviceLoop" /\ pc = "wait" /\ TakesCommand(c)) =>
         /\ UNCHANGED <<state, pc, device_id, is_scanning, dongle_outgoing,
                        dongle_incoming, device_write, device_read>>
         /\ \/ event_outgoing' = Append(event_outgoing, ScanningFinished)
            \/ /\ ~event_open /\ failure' = "send_closed"
               /\ event_outgoing' = event_outgoing
    ]_vars

\* Both commands were answered in a running DeviceLoop
DeviceLoopScanCommandWitness ==
  /\ state = "DeviceLoop" /\ pc = "wait" /\ device_id = "a"
  /\ event_outgoing = <<DeviceFound("a"), ScanningFinished, ScanningFinished>>
  /\ dongle_outgoing = <<OutMessage("Statuss", "Toy")>>
  /\ ~is_scanning

\* C23: the StopScanning state writes StopSearch/USB to the dongle once,
\* then clears the scanning flag, then emits the one ScanningFinished,
\* taking no input on the way, and with that the machine has terminated:
\* no step of the machine is possible any more, whatever command is still
\* in the command channel
StopScanningTerminal ==
  /\ [][/\ (state # "StopScanning" /\ state' = "StopScanning") => pc' = "send"
        /\ (state = "StopScanning" /\ pc = "send") =>
             /\ TakesNoInput
             /\ UNCHANGED <<state, is_scanning, event_outgoing>>
             /\ \/ pc' = "send" /\ dongle_outgoing' = dongle_outgoing
                \/ /\ pc' = "flag"
                   /\ dongle_outgoing' =
                        Append(dongle_outgoing, OutMessage("StopSearch", "USB"))
        /\ (state = "StopScanning" /\ pc = "flag") =>
             /\ TakesNoInput
             /\ UNCHANGED <<state, dongle_outgoing, event_outgoing>>
             /\ pc' = "flag" \/ (pc' = "event" /\ ~is_scanning')
        /\ (state = "StopScanning" /\ pc = "event") =>
             /\ TakesNoInput
             /\ UNCHANGED <<dongle_outgoing, is_scanning>>
             /\ \/ UNCHANGED <<state, pc, event_outgoing>>
                \/ /\ state' = "Done"
                   /\ event_outgoing' = Append(event_outgoing, ScanningFinished)
        /\ state = "Done" =>
             UNCHANGED <<state, comm_manager_incoming, dongle_incoming,
                         dongle_outgoing, event_outgoing, is_scanning>>
       ]_vars
  /\ [](state = "Done" => ~ENABLED Machine)

\* The StopScanning state has run to its end while a StartScanning was
\* waiting in the command channel
StopScanningTerminalWitness ==
  /\ state = "Done" /\ ~is_scanning
  /\ comm_manager_incoming = <<"StartScanning">>
  /\ event_outgoing = <<ScanningFinished>>
  /\ dongle_outgoing =
       <<OutMessage("Statuss", "Toy"), OutMessage("StopSearch", "USB")>>

\* C24: a StartScanning or StopScanning command the machine takes while it
\* waits for input in Scanning or in StopScanningAndConnect is discarded:
\* the step writes nothing to the dongle, emits no event and leaves the
\* scanning flag, the state and its device id as they are, so the scan
\* goes on and no ScanningFinished answers the command
ScanCommandDiscarded ==
  [][\A c \in {"StartScanning", "StopScanning"} :
       (/\ state \in {"Scanning", "StopScanningAndConnect"}
        /\ TakesCommand(c)) =>
         /\ pc = "wait"
         /\ last_scan_cmd' = c
         /\ UNCHANGED <<state, pc, device_id, is_scanning, failure,
                        dongle_incoming, dongle_outgoing, event_outgoing>>
    ]_vars

\* A StopScanning was taken during the scan and the scan goes on
ScanCommandDiscardedWitness ==
  /\ state = "Scanning" /\ pc = "wait" /\ last_scan_cmd = "StopScanning"
  /\ is_scanning /\ comm_manager_incoming = <<>> /\ event_outgoing = <<>>
  /\ dongle_outgoing =
       <<OutMessage("Statuss", "Toy"), OutMessage("Search", "Toy")>>

\* C25: every write of false to the scanning flag is made by a step that
\* does nothing else and is followed, before the machine takes any input
\* or writes anything to the dongle, by the one ScanningFinished event; no
\* other step ever lowers the flag
FlagClearThenEvent ==
  [][/\ (is_scanning /\ ~is_scanning') => pc = "flag"
     /\ (pc = "flag" /\ state \in {"StopScanning", "StopScanningAndConnect"}) =>
          /\ TakesNoInput
          /\ UNCHANGED <<state, dongle_outgoing, event_outgoing>>
          /\ pc' = "flag" \/ (pc' = "event" /\ ~is_scanning')
     /\ (pc # "event" /\ pc' = "event") => (pc = "flag" /\ ~is_scanning')
     /\ pc = "event" =>
          /\ TakesNoInput
          /\ UNCHANGED <<dongle_outgoing, is_scanning>>
          /\ \/ UNCHANGED <<state, pc, event_outgoing>>
             \/ /\ pc' # "event"
                /\ event_outgoing' = Append(event_outgoing, ScanningFinished)
    ]_vars

\* StopScanningAndConnect has lowered the flag of a running scan and sent
\* its event, with a StopScanning waiting in the command channel
FlagClearThenEventWitness ==
  /\ state = "DeviceLoop" /\ pc = "found" /\ device_id = "a" /\ ~is_scanning
  /\ event_outgoing = <<ScanningFinished>>
  /\ comm_manager_incoming = <<"StopScanning">>
  /\ dongle_outgoing =
       <<OutMessage("Statuss", "Toy"), OutMessage("Search", "Toy"),
         OutMessage("StopSearch", "USB")>>

\* ========================================================================
\* The XInput gamepad manager (xinput_device_comm_manager.rs)
\*
\* The tracker's two atomics are shared by the tasks that call add or
\* add_with_sender, and by the check_gamepad_connectivity tasks these calls
\* spawn.  A step of the model is one access of a task to what it shares
\* with the others: one load or one store of an atomic, one get_state call,
\* one spawn, one event.  What a task keeps between two steps (the bitmap
\* it loaded, its loop index) is in its record.
\* ========================================================================

\* ------------------------------------------------------------------------
\* The gamepad environment
\* ------------------------------------------------------------------------
\* A controller is plugged into a slot: get_state answers Ok from now on
Plug(i) ==
  /\ i \notin present
  /\ gamepad_steps < MaxGamepadSteps /\ gamepad_steps' = gamepad_steps + 1
  /\ present' = present \cup {i}
  /\ UNCHANGED <<connected_gamepads, check_running, pollers, callers,
                 gamepad_events>>
  /\ UNCHANGED elsewhere_of_gamepad

\* The controller of a slot is unplugged: get_state answers Err from now on
Unplug(i) ==
  /\ i \in present
  /\ gamepad_steps < MaxGamepadSteps /\ gamepad_steps' = gamepad_steps + 1
  /\ present' = present \ {i}
  /\ UNCHANGED <<connected_gamepads, check_running, pollers, callers,
                 gamepad_events>>
  /\ UNCHANGED elsewhere_of_gamepad

\* The other holder of the tracker calls add(index) or
\* add_with_sender(index, sender)
CallAdd(op, i) ==
  /\ callers["holder"].pc = "idle"
  /\ gamepad_steps < MaxGamepadSteps /\ gamepad_steps' = gamepad_steps + 1
  /\ callers' = [callers EXCEPT !["holder"] =
                   [@ EXCEPT !.pc = "add_load", !.op = op, !.index = i]]
  /\ UNCHANGED <<connected_gamepads, check_running, present, pollers,
                 gamepad_events>>
  /\ UNCHANGED elsewhere_of_gamepad

\* start_scanning: spawns the scanning loop
start_scanning ==
  /\ callers["scanner"].pc = "off"
  /\ gamepad_steps < MaxGamepadSteps /\ gamepad_steps' = gamepad_steps + 1
  /\ callers' = [callers EXCEPT !["scanner"] = [@ EXCEPT !.pc = "get_state"]]
  /\ UNCHANGED <<connected_gamepads, check_running, present, pollers,
                 gamepad_events>>
  /\ UNCHANGED elsewhere_of_gamepad

\* stop_scanning: notify_waiters wakes the loop if it is waiting in
\* notified() at this moment and leaves no permit behind otherwise; then
\* ScanningFinished is sent
stop_scanning ==
  /\ gamepad_steps < MaxGamepadSteps /\ gamepad_steps' = gamepad_steps + 1
  /\ callers' = [callers EXCEPT !["scanner"] =
                   [@ EXCEPT !.pc = IF @ = "select" THEN "notified" ELSE @,
                             !.stop_raised = (callers["scanner"].pc # "off")]]
  /\ gamepad_events' = Append(gamepad_events, ScanningFinished)
  /\ UNCHANGED <<connected_gamepads, check_running, present, pollers>>
  /\ UNCHANGED elsewhere_of_gamepad

\* ------------------------------------------------------------------------
\* XInputConnectionTracker::add and add_with_sender, run by caller c
\* ------------------------------------------------------------------------
\* Where a caller goes on when its add call returns
AfterAdd(c) ==
  IF c = "scanner"
    THEN [callers[c] EXCEPT !.pc = "send", !.op = "none", !.connected = {},
                            !.should_start = FALSE]
    ELSE Resting(c)

\* The first free task slot
FreePoller == CHOOSE p \in PollerIds : ~Alive(p) /\ \A q \in PollerIds : q < p => Alive(q)

\* connected_gamepads.load(); add_with_sender decides should_start from it
AddLoad(c) ==
  /\ callers[c].pc = "add_load"
  /\ callers' = [callers EXCEPT ![c] =
       [@ EXCEPT !.connected = connected_gamepads,
                 !.should_start = (connected_gamepads = {}),
                 !.pc = IF callers[c].op = "add" /\ connected_gamepads = {}
                          THEN "add_check_running" ELSE "add_store"]]
  /\ UNCHANGED <<connected_gamepads, check_running, present, pollers,
                 gamepad_events, gamepad_steps>>
  /\ UNCHANGED elsewhere_of_gamepad

\* add: connected == 0 && !check_running.load()
AddCheckRunning(c) ==
  /\ callers[c].pc = "add_check_running"
  /\ callers' = [callers EXCEPT ![c] =
       [@ EXCEPT !.should_start = ~check_running, !.pc = "add_store"]]
  /\ UNCHANGED <<connected_gamepads, check_running, present, pollers,
                 gamepad_events, gamepad_steps>>
  /\ UNCHANGED elsewhere_of_gamepad

\* connected |= 1 << index; connected_gamepads.store(connected)
AddStore(c) ==
  /\ callers[c].pc = "add_store"
  /\ connected_gamepads' = callers[c].connected \cup {callers[c].index}
  /\ callers' = [callers EXCEPT ![c] =
       IF @.should_start THEN [@ EXCEPT !.pc = "add_spawn"] ELSE AfterAdd(c)]
  /\ UNCHANGED <<check_running, present, pollers, gamepad_events,
                 gamepad_steps>>
  /\ UNCHANGED elsewhere_of_gamepad

\* if should_start { spawn(check_gamepad_connectivity(.., sender)) }
AddSpawn(c) ==
  /\ callers[c].pc = "add_spawn"
  /\ \E p \in PollerIds : ~Alive(p)
  /\ pollers' = [pollers EXCEPT ![FreePoller] =
       [pc |-> "start", gamepads |-> {}, index |-> 0,
        sender |-> (callers[c].op = "add_with_sender")]]
  /\ callers' = [callers EXCEPT ![c] = AfterAdd(c)]
  /\ UNCHANGED <<connected_gamepads, check_running, present, gamepad_events,
                 gamepad_steps>>
  /\ UNCHANGED elsewhere_of_gamepad

\* ------------------------------------------------------------------------
\* check_gamepad_connectivity, run by task p
\* ------------------------------------------------------------------------
\* Where the for loop goes after slot i: the next slot whose bit is set in
\* the bitmap loaded for this sweep, or the 500 ms delay and the next sweep
AfterSlot(t, i) ==
  LET later == {j \in t.gamepads : j > i} IN
    IF later = {}
      THEN [t EXCEPT !.pc = "load", !.gamepads = {}, !.index = 0]
      ELSE [t EXCEPT !.index = CHOOSE j \in later : \A k \in later : j <= k]

\* check_running.store(true)
PollerStart(p) ==
  /\ pollers[p].pc = "start"
  /\ check_running' = TRUE
  /\ pollers' = [pollers EXCEPT ![p] = [@ EXCEPT !.pc = "load"]]
  /\ UNCHANGED <<connected_gamepads, present, callers, gamepad_events,
                 gamepad_steps>>
  /\ UNCHANGED elsewhere_of_gamepad

\* let gamepads = connected_gamepads.load(); if gamepads == 0 { break; }
PollerLoad(p) ==
  /\ pollers[p].pc = "load"
  /\ pollers' = [pollers EXCEPT ![p] =
       IF connected_gamepads = {}
         THEN NoPoller
         ELSE [@ EXCEPT !.pc = "sweep", !.gamepads = connected_gamepads,
                        !.index = CHOOSE j \in connected_gamepads :
                                    \A k \in connected_gamepads : j <= k]]
  /\ UNCHANGED <<connected_gamepads, check_running, present, callers,
                 gamepad_events, gamepad_steps>>
  /\ UNCHANGED elsewhere_of_gamepad

\* One slot of the sweep whose bit is set in gamepads: get_state; on Err
\* store gamepads & !(1 << index) and send Disconnected if there is a sender
PollerSlot(p) ==
  /\ pollers[p].pc = "sweep"
  /\ LET t == pollers[p]
         new_connected_gamepads == t.gamepads \ {t.index}
     IN IF t.index \in present
          THEN /\ pollers' = [pollers EXCEPT ![p] = AfterSlot(t, t.index)]
               /\ UNCHANGED <<connected_gamepads, gamepad_events>>
          ELSE /\ connected_gamepads' = new_connected_gamepads
               /\ gamepad_events' =
                    IF t.sender
                      THEN Append(gamepad_events,
                                  Disconnected(create_address(t.index)))
                      ELSE gamepad_events
               /\ pollers' = [pollers EXCEPT ![p] =
                    IF new_connected_gamepads = {}
                      THEN [t EXCEPT !.pc = "clear", !.gamepads = {},
                                     !.index = 0]
                      ELSE AfterSlot(t, t.index)]
  /\ UNCHANGED <<check_running, present, callers, gamepad_steps>>
  /\ UNCHANGED elsewhere_of_gamepad

\* check_running.store(false); return
PollerClear(p) ==
  /\ pollers[p].pc = "clear"
  /\ check_running' = FALSE
  /\ pollers' = [pollers EXCEPT ![p] = NoPoller]
  /\ UNCHANGED <<connected_gamepads, present, callers, gamepad_events,
                 gamepad_steps>>
  /\ UNCHANGED elsewhere_of_gamepad

\* ------------------------------------------------------------------------
\* The scanning loop spawned by start_scanning
\* ------------------------------------------------------------------------
\* Where the loop goes after slot i: the next slot, or the select
AfterScan(t) ==
  IF t.index = SlotCount - 1
    THEN [t EXCEPT !.pc = "select", !.index = 0]
    ELSE [t EXCEPT !.pc = "get_state", !.index = @ + 1]

\* get_state(i); on Ok, connected(i); if the slot is new, the call of add(i)
ScanSlot ==
  /\ callers["scanner"].pc = "get_state"
  /\ callers' = [callers EXCEPT !["scanner"] =
       IF @.index \in present /\ @.index \notin connected_gamepads
         THEN [@ EXCEPT !.pc = "add_load", !.op = "add"]
         ELSE AfterScan(@)]
  /\ UNCHANGED <<connected_gamepads, check_running, present, pollers,
                 gamepad_events, gamepad_steps>>
  /\ UNCHANGED elsewhere_of_gamepad

\* sender.send(DeviceFound { address: i.to_string() })
ScanSend ==
  /\ callers["scanner"].pc = "send"
  /\ gamepad_events' =
       Append(gamepad_events, DeviceFound(create_address(callers["scanner"].index)))
  /\ callers' = [callers EXCEPT !["scanner"] = AfterScan(@)]
  /\ UNCHANGED <<connected_gamepads, check_running, present, pollers,
                 gamepad_steps>>
  /\ UNCHANGED elsewhere_of_gamepad

\* select!: the 1 s delay elapses
ScanDelay ==
  /\ callers["scanner"].pc = "select"
  /\ callers' = [callers EXCEPT !["scanner"] = [@ EXCEPT !.pc = "get_state"]]
  /\ UNCHANGED <<connected_gamepads, check_running, present, pollers,
                 gamepad_events, gamepad_steps>>
  /\ UNCHANGED elsewhere_of_gamepad

\* select!: notified() completes; stop = true ends the loop
ScanStop ==
  /\ callers["scanner"].pc = "notified"
  /\ callers' = [callers EXCEPT !["scanner"] = Resting("scanner")]
  /\ UNCHANGED <<connected_gamepads, check_running, present, pollers,
                 gamepad_events, gamepad_steps>>
  /\ UNCHANGED elsewhere_of_gamepad

\* ------------------------------------------------------------------------
\* The gamepad manager and its environment
\* ------------------------------------------------------------------------
GamepadEnvironment ==
  \/ \E i \in UsedSlots : Plug(i)
  \/ \E i \in UsedSlots : Unplug(i)
  \/ start_scanning
  \/ stop_scanning

TrackerHolder ==
  \E op \in {"add", "add_with_sender"} : \E i \in UsedSlots : CallAdd(op, i)

GamepadTasks ==
  \/ \E c \in CallerIds : AddLoad(c)
  \/ \E c \in CallerIds : AddCheckRunning(c)
  \/ \E c \in CallerIds : AddStore(c)
  \/ \E c \in CallerIds : AddSpawn(c)
  \/ \E p \in PollerIds : PollerStart(p)
  \/ \E p \in PollerIds : PollerLoad(p)
  \/ \E p \in PollerIds : PollerSlot(p)
  \/ \E p \in PollerIds : PollerClear(p)
  \/ ScanSlot
  \/ ScanSend
  \/ ScanDelay
  \/ ScanStop

\* The manager of this file alone: only the scanning loop calls the tracker
ManagerNext == GamepadEnvironment \/ GamepadTasks

\* The tracker with a second holder calling add and add_with_sender
GamepadNext == GamepadEnvironment \/ TrackerHolder \/ GamepadTasks

ManagerSpec == ServerInit /\ [][ManagerNext]_gamepad_vars

GamepadSpec == ServerInit /\ [][GamepadNext]_gamepad_vars

\* The steps of the scanning loop's task and of polling task p
ScanningLoop ==
  \/ ScanSlot \/ ScanSend \/ ScanDelay \/ ScanStop
  \/ AddLoad("scanner") \/ AddCheckRunning("scanner")
  \/ AddStore("scanner") \/ AddSpawn("scanner")

PollerTask(p) ==
  PollerStart(p) \/ PollerLoad(p) \/ PollerSlot(p) \/ PollerClear(p)

\* The task runtime keeps polling every task: a step of a task that stays
\* possible is eventually taken
FairManagerSpec ==
  /\ ManagerSpec
  /\ WF_gamepad_vars(ScanningLoop)
  /\ \A p \in PollerIds : WF_gamepad_vars(PollerTask(p))

\* ------------------------------------------------------------------------
\* Properties of the gamepad manager
\* ------------------------------------------------------------------------
\* C13: whenever a bit of the connected-gamepads bitmap is set, a polling
\* task is alive or an add call is about to spawn one; no bit stays set
\* with no poller alive and none being spawned
PollerCoversBitmap ==
  connected_gamepads # {} =>
    \/ \E p \in PollerIds : Alive(p)
    \/ \E c \in CallerIds : callers[c].pc = "add_spawn"

\* C14: at most one polling task is alive at any time, whatever the
\* interleaving of add and add_with_sender calls with the poller
OnePollerAlive == Cardinality({p \in PollerIds : Alive(p)}) <= 1

\* C15: when a poller finds get_state failing for a slot of its sweep, it
\* clears that slot's bit, sets no other bit (a bit cleared earlier stays
\* clear until an add sets it again) and, if it has a sender, emits one
\* Disconnected for the slot; this also when several slots fail in a sweep
NoDuplicateDisconnect ==
  [][\A p \in PollerIds :
       (/\ pollers[p].pc = "sweep" /\ pollers'[p] # pollers[p]
        /\ pollers[p].index \notin present) =>
         /\ connected_gamepads' \subseteq connected_gamepads \ {pollers[p].index}
         /\ pollers[p].sender =>
              gamepad_events' =
                Append(gamepad_events,
                       Disconnected(create_address(pollers[p].index)))
    ]_gamepad_vars

\* C16: every update of the bitmap is an atomic read-modify-write: the
\* store of an add of slot i leaves the current bitmap with bit i added,
\* the store of a poller clearing slot j leaves the current bitmap with bit
\* j removed; neither writes back a stale copy that loses the other's update
AtomicBitmapUpdates ==
  [][/\ \A c \in CallerIds :
          (callers[c].pc = "add_store" /\ callers'[c] # callers[c]) =>
            connected_gamepads' = connected_gamepads \cup {callers[c].index}
     /\ \A p \in PollerIds :
          (/\ pollers[p].pc = "sweep" /\ pollers'[p] # pollers[p]
           /\ pollers[p].index \notin present) =>
            connected_gamepads' = connected_gamepads \ {pollers[p].index}
    ]_gamepad_vars

\* How often event e was emitted
Emitted(e) ==
  Cardinality({k \in 1 .. Len(gamepad_events) : gamepad_events[k] = e})

\* DeviceFound events of slot i not yet matched by a Disconnected
Unmatched(i) ==
  Emitted(DeviceFound(create_address(i))) - Emitted(Disconnected(create_address(i)))

\* The scanning loop is between its test of slot i and its DeviceFound
Registering(i) ==
  /\ callers["scanner"].index = i
  /\ callers["scanner"].pc \in
       {"add_load", "add_check_running", "add_store", "add_spawn", "send"}

\* C17: for every slot i that the scanning loop is not just registering,
\* bit i of the bitmap is set if and only if exactly one DeviceFound for
\* slot i has been emitted that no Disconnected for slot i has matched yet
BitIffUnmatchedDeviceFound ==
  \A i \in Slots :
    ~Registering(i) => (i \in connected_gamepads <=> Unmatched(i) = 1)

\* C18: the flag check_running is never true while no polling task is
\* alive: a poller that exits, by either exit path, leaves it false
FlagFalseWithoutPoller ==
  check_running => \E p \in PollerIds : Alive(p)

\* stop_scanning has run since the running loop was spawned
StopRaised == callers["scanner"].pc # "off" /\ callers["scanner"].stop_raised

\* C19: once stop_scanning has raised the stop signal, wherever the
\* scanning loop is at that moment, the loop terminates
StopEndsScanning == StopRaised ~> (callers["scanner"].pc = "off")

\* ========================================================================
\* The MagicMotionV4 protocol handler (magic_motion_v4.rs)
\*
\* handle_vibrate_cmd asks the device's command manager what a VibrateCmd
\* changes and writes one frame to the Tx endpoint if it changes anything.
\* The command manager (GenericCommandManager) is described by what the
\* handler relies on: the committed speed of each motor, the speeds a
\* message changes, the rejection of a message the device cannot take.
\* A speed of a message is a float in [0.0, 1.0], kept here in thousandths.
\* ========================================================================
\* Speeds a caller sends, in thousandths: 0.0, 0.004, 0.5, 1.0
SpeedInputs == {0, 4, 500, 1000}

\* VibrateSubcommand { index, speed }; index MotorBlocks is beyond every
\* device
VibrateSubcommand == [index : 0 .. MotorBlocks, speed : SpeedInputs]

\* VibrateCmd: a list of subcommands, of different motors, in index order
VibrateCmd ==
  {m \in UNION {[1 .. n -> VibrateSubcommand] : n \in 1 .. MaxSubcommands} :
     \A j, k \in 1 .. Len(m) : j < k => m[j].index < m[k].index}

\* Option<u32>
None == [some |-> FALSE, value |-> 0]
Some(v) == [some |-> TRUE, value |-> v]
unwrap_or(o, d) == IF o.some THEN o.value ELSE d

\* Steps of a motor: a speed of 1.0 is StepCount
StepCount == 100

\* The speed of a subcommand as a step of the motor: round(speed * 100)
ToSteps(speed) == (speed * StepCount + 500) \div 1000

\* The committed speeds after message msg
RECURSIVE Committed(_, _)
Committed(v, msg) ==
  IF msg = <<>>
    THEN v
    ELSE Committed([v EXCEPT ![Head(msg).index + 1] = ToSteps(Head(msg).speed)],
                   Tail(msg))

\* GenericCommandManager::update_vibration: an error for a message with
\* more subcommands than motors or with a motor index out of range;
\* otherwise the message is committed and the result is None if no motor
\* changed its speed, else Some(cmds), cmds[i] being Some(speed) for a
\* motor that changed and None for one that did not
update_vibration(msg, match_all) ==
  LET n == Len(vibrations)
      bad == Len(msg) > n \/ \E k \in 1 .. Len(msg) : msg[k].index >= n
      new == IF bad THEN vibrations ELSE Committed(vibrations, msg)
      cmds == [i \in 1 .. n |->
                 IF new[i] # vibrations[i] THEN Some(new[i]) ELSE None]
  IN [err |-> bad,
      some |-> \E i \in 1 .. n : cmds[i].some,
      cmds |-> cmds,
      vibrations |-> new]

\* The 17 byte frame with the two speed bytes at offsets 9 and 14
Frame(m0, m1) ==
  <<16, 255, 4, 10, 50, 50, 0, 4, 8, m0 % 256, 100, 0, 4, 8, m1 % 256, 100, 1>>

\* let data = if cmds.len() == 1 { .. } else { .. }
Data(cmds) ==
  IF Len(cmds) = 1
    THEN Frame(unwrap_or(cmds[1], 0), unwrap_or(cmds[1], 0))
    ELSE Frame(unwrap_or(cmds[1], 0), unwrap_or(cmds[2], 0))

\* ShouldWrite with the write made whatever the manager answered
ShouldWrite_Always(result) == TRUE

\* ShouldWrite with the write made only if the first motor changed
ShouldWrite_FirstMotor(result) == result.cmds[1].some

\* if let Some(cmds) = result
ShouldWrite(result) == result.some

\* A device with n motors is created: nothing committed yet
CreateDevice(n) ==
  /\ vibrations = <<>>
  /\ protocol_steps < MaxProtocolSteps /\ protocol_steps' = protocol_steps + 1
  /\ vibrations' = [i \in 1 .. n |-> 0]
  /\ UNCHANGED <<tx, hardware_ok, reply, last_msg, last_writes, last_call>>
  /\ UNCHANGED elsewhere_of_protocol

\* The hardware stops accepting writes
HardwareFails ==
  /\ vibrations # <<>> /\ hardware_ok
  /\ protocol_steps < MaxProtocolSteps /\ protocol_steps' = protocol_steps + 1
  /\ hardware_ok' = FALSE
  /\ UNCHANGED <<vibrations, tx, reply, last_msg, last_writes, last_call>>
  /\ UNCHANGED elsewhere_of_protocol

\* MagicMotionV4::handle_vibrate_cmd
handle_vibrate_cmd(message) ==
  /\ vibrations # <<>>
  /\ protocol_steps < MaxProtocolSteps /\ protocol_steps' = protocol_steps + 1
  /\ LET result == update_vibration(message, TRUE) IN
       /\ vibrations' = result.vibrations
       /\ IF result.err
            THEN reply' = "DeviceMessageError" /\ tx' = tx
            ELSE IF ShouldWrite(result)
              THEN IF hardware_ok
                     THEN tx' = Append(tx, Data(result.cmds)) /\ reply' = "Ok"
                     ELSE tx' = tx /\ reply' = "DeviceError"
              ELSE tx' = tx /\ reply' = "Ok"
  /\ last_msg' = message
  /\ last_writes' = Len(tx') - Len(tx)
  /\ UNCHANGED hardware_ok
  /\ UNCHANGED elsewhere_of_protocol

\* The stop command of a device: a VibrateCmd setting every motor to 0
StopCommand == [i \in 1 .. Len(vibrations) |-> [index |-> i - 1, speed |-> 0]]

\* handle_stop_device_cmd: the stop command goes through the handler of
\* its message type
handle_stop_device_cmd == handle_vibrate_cmd(StopCommand)

\* device.parse_message(VibrateCmd::new(..).into())
ParseVibrateCmd(message) ==
  /\ handle_vibrate_cmd(message)
  /\ last_call' = "VibrateCmd"

\* device.parse_message(StopDeviceCmd::new(0).into())
ParseStopDeviceCmd ==
  /\ handle_stop_device_cmd
  /\ last_call' = "StopDeviceCmd"

ProtocolNext ==
  \/ \E n \in 1 .. MotorBlocks : CreateDevice(n)
  \/ HardwareFails
  \/ \E message \in VibrateCmd : ParseVibrateCmd(message)
  \/ ParseStopDeviceCmd

ProtocolSpec == ServerInit /\ [][ProtocolNext]_protocol_vars

\* ------------------------------------------------------------------------
\* Properties of the protocol handler
\* ------------------------------------------------------------------------
\* This step is a call of handle_vibrate_cmd; its message is last_msg'
Handles ==
  /\ vibrations # <<>> /\ protocol_steps' = protocol_steps + 1
  /\ hardware_ok' = hardware_ok

\* The writes this step makes
Writes == Len(tx') - Len(tx)

\* C20 as stated: in every device state, a VibrateCmd handled a second
\* time finds that the first call made exactly one write, makes no write
\* itself and returns Ok
VibrateRepeatOneWrite ==
  [][(Handles /\ last_msg' = last_msg) =>
       last_writes = 1 /\ Writes = 0 /\ reply' = "Ok"
    ]_protocol_vars

\* C20 amended: a VibrateCmd makes one write if it changes the committed
\* speed of some motor and the hardware takes the write, and no write
\* otherwise; a VibrateCmd the device accepted, handled a second time,
\* makes no write and returns Ok, so the two calls make at most one write
VibrateRepeatNoWrite ==
  [][Handles =>
       /\ Writes = IF /\ ~update_vibration(last_msg', TRUE).err
                      /\ Committed(vibrations, last_msg') # vibrations
                      /\ hardware_ok
                     THEN 1 ELSE 0
       /\ (last_msg' = last_msg /\ reply # "DeviceMessageError") =>
            Writes = 0 /\ reply' = "Ok" /\ last_writes <= 1
    ]_protocol_vars

\* A one motor device took Vibrate(0, 0.5) twice: one frame, written by the
\* first call
VibrateRepeatNoWriteWitness ==
  /\ protocol_steps = 3 /\ vibrations = <<50>> /\ hardware_ok
  /\ last_msg = <<[index |-> 0, speed |-> 500]>>
  /\ tx = <<Frame(50, 50)>> /\ last_writes = 0 /\ reply = "Ok"

\* This step's message is one the device accepts and that changes the
\* committed speed of some motor
ChangesMotor ==
  /\ ~update_vibration(last_msg', TRUE).err
  /\ Committed(vibrations, last_msg') # vibrations

NonZeroMotor == \E i \in 1 .. Len(vibrations) : vibrations[i] # 0

\* The VibrateCmds that set every motor of the device to 0
ZeroAll ==
  {m \in VibrateCmd :
     /\ Len(m) = Len(vibrations)
     /\ \A k \in 1 .. Len(m) : m[k].index = k - 1 /\ m[k].speed = 0}

ButtplugMessageUnion == {"m1", "m2"}
ServerAnswers == {"Ok", "Err"}

\* ButtplugClientConnectorError { message: "Client not connected to server." }
NotConnected == "ButtplugClientConnectorError: Client not connected to server."

\* This call is counted against the caller's budget
ConnectorCall(op) ==
  /\ connector_steps < MaxConnectorSteps
  /\ connector_steps' = connector_steps + 1
  /\ last_op' = op

\* ButtplugServer::new: a server that has received nothing
ButtplugServer_new == SomeServer(created + 1)

\* fn connect
connect ==
  /\ ConnectorCall("connect")
  /\ server' = ButtplugServer_new
  /\ created' = created + 1
  /\ returned' = "None"
  /\ linked' = TRUE
  /\ UNCHANGED delivered
  /\ UNCHANGED elsewhere_of_connector

\* disconnect with the server left in place
disconnect_KeepServer ==
  /\ ConnectorCall("disconnect")
  /\ returned' = "None"
  /\ linked' = FALSE
  /\ UNCHANGED <<server, created, delivered>>
  /\ UNCHANGED elsewhere_of_connector

\* fn disconnect
disconnect ==
  /\ ConnectorCall("disconnect")
  /\ server' = NoServer
  /\ returned' = "None"
  /\ linked' = FALSE
  /\ UNCHANGED <<created, delivered>>
  /\ UNCHANGED elsewhere_of_connector

\* fn send: the held server's answer, its error wrapped as
\* ButtplugClientError::ButtplugError, or the connector's own error
send(msg, answer) ==
  /\ ConnectorCall("send")
  /\ IF server.some
       THEN /\ delivered' = Append(delivered, [server |-> server.id, msg |-> msg])
            /\ returned' = IF answer = "Ok" THEN "Ok" ELSE "ButtplugError"
       ELSE /\ delivered' = delivered
            /\ returned' = NotConnected
  /\ UNCHANGED <<server, created, linked>>
  /\ UNCHANGED elsewhere_of_connector

ConnectorNext ==
  \/ connect
  \/ disconnect
  \/ \E msg \in ButtplugMessageUnion, answer \in ServerAnswers : send(msg, answer)

ConnectorSpec == ServerInit /\ [][ConnectorNext]_connector_vars

\* ------------------------------------------------------------------------
\* Properties of the connector
\* ------------------------------------------------------------------------
\* This step is the call op
Calls(op) == connector_steps' = connector_steps + 1 /\ last_op' = op

\* C26: send returns the connector error "Client not connected to server."
\* and reaches no server if and only if no connect was called since
\* construction or since the last disconnect; otherwise the message reaches
\* the server of the latest connect and send returns that server's answer;
\* connect and disconnect return None, and connect installs a server that
\* never existed before in place of the one held
ConnectorSendGuard ==
  [][/\ Calls("send") =>
          /\ (returned' = NotConnected) <=> ~linked
          /\ (delivered' = delivered) <=> ~linked
          /\ linked =>
               /\ returned' \in {"Ok", "ButtplugError"}
               /\ \E msg \in ButtplugMessageUnion :
                    delivered' =
                      Append(delivered, [server |-> created, msg |-> msg])
          /\ UNCHANGED <<server, created>>
     /\ Calls("connect") =>
          /\ returned' = "None" /\ delivered' = delivered
          /\ server'.some /\ server' # server
          /\ \A n \in 1 .. Len(delivered) : delivered[n].server # server'.id
          /\ created' = server'.id
     /\ Calls("disconnect") =>
          returned' = "None" /\ delivered' = delivered /\ created' = created
    ]_connector_vars

\* connect, send, disconnect, connect, send: the two sends reached
\* different servers
ConnectorSendGuardWitness ==
  /\ last_op = "send" /\ linked /\ created = 2 /\ returned = "Ok"
  /\ delivered = <<[server |-> 1, msg |-> "m1"], [server |-> 2, msg |-> "m1"]>>
  /\ connector_steps = 5
====
